---- MODULE Spec2Model ----
(***************************************************************************)
(* The BlueBikes aggregator (scripts/aggregate.py) as a state machine.     *)
(*                                                                         *)
(* A Python str is a sequence of one-character strings, so that the first  *)
(* character of a station id, its upper-casing and the code-point order of *)
(* two ids are computed as the code computes them.  Python's None is the   *)
(* one-element sequence <<"None">>, which is no string: "None" is no       *)
(* character.  A float is an integer (the inputs are whole numbers); a     *)
(* quotient is the exact fraction <<numerator, denominator>>.              *)
(***************************************************************************)
EXTENDS Integers, Sequences, FiniteSets, TLC

(* ------------------------------ bounds -------------------------------- *)

\* The longest batch of trip records read from stdin.
MaxBatch == 3

\* The longest station id handed to get_municipality / format_station_name.
MaxIdLen == 1

\* The most trips added to one block of duration sums held as doubles.
MaxTrips == 3

(* ------------------------------ strings ------------------------------- *)

None == <<"None">>

\* The characters of the model, in code-point order.  The last one, written
\* "ff", is the single character U+FB00 (the ligature of two f).
Chars ==
    << " ", "-", ".", "0", "1", "2", "3", "4", "5", "6", "7", "8", "9", ":",
       "A", "B", "C", "D", "E", "F", "G", "H", "I", "J", "K", "L", "M",
       "N", "O", "P", "Q", "R", "S", "T", "U", "V", "W", "X", "Y", "Z", "_",
       "a", "b", "c", "d", "e", "f", "g", "h", "i", "j", "k", "l", "m",
       "n", "o", "p", "q", "r", "s", "t", "u", "v", "w", "x", "y", "z", "ff" >>

CharSet == { Chars[k] : k \in 1..Len(Chars) }

\* The rank of a character in code-point order.
Ord(c) == CHOOSE k \in 1..Len(Chars) : Chars[k] = c

\* str.upper() of a str of one character, which is a str: a lower-case
\* letter is 27 places after its upper-case letter in Chars ("_" lies
\* between the two alphabets), and the upper case of the ligature is the
\* two characters FF.
Upper(c) ==
    IF Ord(c) >= Ord("a") /\ Ord(c) <= Ord("z")
    THEN << Chars[Ord(c) - (Ord("a") - Ord("A"))] >>
    ELSE IF c = "ff" THEN << "F", "F" >>
    ELSE << c >>

\* Python's truth value of a str-or-None.
Truthy(s) == s # None /\ s # <<>>

\* s < t for two str, as Python compares them (by code point, a proper
\* prefix first).
RECURSIVE StrLess(_, _)
StrLess(s, t) ==
    IF t = <<>> THEN FALSE
    ELSE IF s = <<>> THEN TRUE
    ELSE IF Head(s) # Head(t) THEN Ord(Head(s)) < Ord(Head(t))
    ELSE StrLess(Tail(s), Tail(t))

Digits == << "0", "1", "2", "3", "4", "5", "6", "7", "8", "9" >>

IsDigit(c) == \E k \in 1..10 : Digits[k] = c

DigitVal(c) == (CHOOSE k \in 1..10 : Digits[k] = c) - 1

RECURSIVE NatVal(_)
NatVal(s) ==
    IF s = <<>> THEN 0
    ELSE 10 * NatVal(SubSeq(s, 1, Len(s) - 1)) + DigitVal(s[Len(s)])

IsNatLiteral(s) == s # <<>> /\ \A k \in 1..Len(s) : IsDigit(s[k])

\* float(s): the value, or the exception it raises.  A literal is an
\* optional minus sign and decimal digits; None raises TypeError and any
\* other text of the model raises ValueError.
Float(s) ==
    IF s = None THEN [exc |-> "TypeError", val |-> 0]
    ELSE IF IsNatLiteral(s) THEN [exc |-> "", val |-> NatVal(s)]
    ELSE IF s # <<>> /\ Head(s) = "-" /\ IsNatLiteral(Tail(s))
         THEN [exc |-> "", val |-> 0 - NatVal(Tail(s))]
    ELSE [exc |-> "ValueError", val |-> 0]

(* --------------------------- pure functions --------------------------- *)

classic_bike == << "c","l","a","s","s","i","c","_","b","i","k","e" >>
docked_bike == << "d","o","c","k","e","d","_","b","i","k","e" >>
electric_bike == << "e","l","e","c","t","r","i","c","_","b","i","k","e" >>

\* normalize_bike_type gone wrong: a docked bike taken for an electric one.
normalize_bike_type_docked_electric(bike_type) ==
    IF bike_type = docked_bike THEN electric_bike
    ELSE IF bike_type = classic_bike THEN classic_bike ELSE bike_type

normalize_bike_type(bike_type) ==
    IF bike_type \in {docked_bike, classic_bike} THEN classic_bike ELSE bike_type

startswith_N(station_id) ==
    station_id # None /\ station_id # <<>> /\ Head(station_id) = "N"

\* sort_id_by_n_and_alpha gone wrong: the "not" is missing.
sort_id_by_n_and_alpha_no_not(station_id) ==
    [rest |-> startswith_N(station_id), id |-> station_id]

\* The sort key (not startswith('N'), station_id).
sort_id_by_n_and_alpha(station_id) ==
    [rest |-> ~startswith_N(station_id), id |-> station_id]

Boston == << "B","o","s","t","o","n" >>

\* The municipalities dict, as the set of its items.
municipalities ==
    { << << "V" >>, << "M","e","d","f","o","r","d" >> >>,
      << << "W" >>, << "W","a","t","e","r","t","o","w","n" >> >>,
      << << "T" >>, << "S","a","l","e","m" >> >>,
      << << "K" >>, << "B","r","o","o","k","l","i","n","e" >> >>,
      << << "L" >>, << "L","e","x","i","n","g","t","o","n" >> >>,
      << << "M" >>, << "C","a","m","b","r","i","d","g","e" >> >>,
      << << "N" >>, << "N","e","w","t","o","n" >> >>,
      << << "R" >>, << "R","e","v","e","r","e" >> >>,
      << << "S" >>, << "S","o","m","e","r","v","i","l","l","e" >> >> }

\* municipalities.get(prefix, '')
municipalities_get(prefix) ==
    IF \E item \in municipalities : item[1] = prefix
    THEN (CHOOSE item \in municipalities : item[1] = prefix)[2]
    ELSE <<>>

get_municipality(station_id) ==
    IF ~Truthy(station_id) THEN <<>>
    ELSE LET prefix == Upper(Head(station_id))
         IN  IF ~StrLess(prefix, << "A" >>) /\ ~StrLess(<< "H" >>, prefix)
             THEN Boston
             ELSE municipalities_get(prefix)

\* format_station_name gone wrong: an empty name is prefixed as well.
format_station_name_bare_name(station_id, station_name) ==
    IF ~Truthy(station_id) THEN station_name
    ELSE LET municipality == get_municipality(station_id)
         IN  IF Truthy(municipality)
             THEN municipality \o << ":", " " >> \o station_name
             ELSE station_name

format_station_name(station_id, station_name) ==
    IF ~Truthy(station_id) \/ ~Truthy(station_name) THEN station_name
    ELSE LET municipality == get_municipality(station_id)
         IN  IF Truthy(municipality)
             THEN municipality \o << ":", " " >> \o station_name
             ELSE station_name

(* ------------------------------- state -------------------------------- *)

VARIABLES
    stdin,           \* the trip records still to be read by csv.DictReader
    rows,            \* rows = list(reader)
    pc,              \* where main() is
    i,               \* the index of the row the running loop is at
    station_coords,  \* compute_station_coordinates: id -> lat_sum, lng_sum, count
    avg_coords,      \* id -> latitude, longitude (formatted averages)
    mode,            \* "stations" (--stations) or "pairs" (--station-pairs)
    stations,        \* analyze_stations: id -> StationStats
    pairs,           \* analyze_station_pairs: (id, id) -> names, coordinates, stats
    output_rows,     \* the report
    exc,             \* the exception that ended the run, "" when none
    call             \* one call of a naming function: its arguments and result

vars == << stdin, rows, pc, i, station_coords, avg_coords, mode, stations,
           pairs, output_rows, exc, call >>

\* A dict with no key, and d[k] = v.
EmptyDict == << >>

Put(d, k, v) == [x \in (DOMAIN d) \cup {k} |-> IF x = k THEN v ELSE d[x]]

\* The key of the opposite direction.
Mirror(key) == << key[2], key[1] >>

(* ------------------------ quotients and rounding ---------------------- *)

\* a / b: the exact fraction; a denominator of 0 stands for the
\* ZeroDivisionError the division raises.
Divide(a, b) == << a, b >>

ZeroDivision(q) == q[2] = 0

Times(q, n) == << q[1] * n, q[2] >>

RECURSIVE Pow10(_)
Pow10(n) == IF n = 0 THEN 1 ELSE 10 * Pow10(n - 1)

\* The integer nearest to n / d (d > 0), a tie going to the even one.
RoundHalfEven(n, d) ==
    LET q == n \div d
        r == n % d
    IN  IF 2 * r < d THEN q
        ELSE IF 2 * r > d THEN q + 1
        ELSE IF q % 2 = 0 THEN q ELSE q + 1

\* round(x, digits) and f"{x:.{digits}f}": x rounded to that many decimal
\* digits, as a whole number of units of 10^-digits.
Round(q, digits) == RoundHalfEven(q[1] * Pow10(digits), q[2])

(* ------------------------ compute_station_coordinates ----------------- *)

NewCoordSums == [lat_sum |-> 0, lng_sum |-> 0, count |-> 0]

\* One endpoint of one row (lines 134-141 and 144-151).  The subscription
\* station_coords[station_id] creates the entry before float() is called,
\* and lat_sum is added to before float(lng) can raise.
CoordsEndpoint(coords, station_id, lat, lng) ==
    IF ~(Truthy(station_id) /\ Truthy(lat) /\ Truthy(lng)) THEN coords
    ELSE LET old == IF station_id \in DOMAIN coords
                    THEN coords[station_id] ELSE NewCoordSums
             flat == Float(lat)
             flng == Float(lng)
         IN  IF flat.exc # "" THEN Put(coords, station_id, old)
             ELSE IF flng.exc # ""
                  THEN Put(coords, station_id,
                           [old EXCEPT !.lat_sum = @ + flat.val])
             ELSE Put(coords, station_id,
                      [lat_sum |-> old.lat_sum + flat.val,
                       lng_sum |-> old.lng_sum + flng.val,
                       count |-> old.count + 1])

\* One row of the first pass: the start station, then the end station.
CoordsRow(coords, row) ==
    CoordsEndpoint(
        CoordsEndpoint(coords, row.start_station_id, row.start_lat, row.start_lng),
        row.end_station_id, row.end_lat, row.end_lng)

\* f"{sum / count:.5f}": the text, as the number of its 0.00001 units in a
\* one-element sequence ('' is the empty sequence).
Fmt5(sum, count) == << Round(Divide(sum, count), 5) >>

\* Lines 154-160.
ComputeAverages(coords) ==
    [id \in { s \in DOMAIN coords : coords[s].count > 0 } |->
        [latitude |-> Fmt5(coords[id].lat_sum, coords[id].count),
         longitude |-> Fmt5(coords[id].lng_sum, coords[id].count)]]

(* ---------------------------- derived metrics ------------------------- *)

\* compute_weighted_average gone wrong: the division is not guarded.
compute_weighted_average_unguarded(total_sum, count) == Divide(total_sum, count)

\* Lines 184-195: total_sum / count if count > 0 else 0.0.
compute_weighted_average(total_sum, count) ==
    IF count > 0 THEN Divide(total_sum, count) ELSE << 0, 1 >>

\* Lines 383-384 and 590-591: (electric / trips * 100) if trips > 0 else 0.
electric_percent(electric_count, trip_count) ==
    IF trip_count > 0 THEN Times(Divide(electric_count, trip_count), 100)
    ELSE << 0, 1 >>

\* Lines 164-182: the text "bidir (F: fwd / R: rev)", as its three rounded
\* numbers and the suffix.
format_metric(bidir, fwd, rev, suffix, round_digits) ==
    [bidir |-> Round(bidir, round_digits), fwd |-> Round(fwd, round_digits),
     rev |-> Round(rev, round_digits), suffix |-> suffix]

\* A TripStats (lines 279-284): the tallies of one direction.
NewTripStats ==
    [trip_count |-> 0, electric_count |-> 0, total_duration |-> 0,
     electric_duration |-> 0, classic_duration |-> 0]

\* AddTrip gone wrong: an electric trip is not counted as electric.
AddTrip_electric_uncounted(stats, duration, bike_type) ==
    IF bike_type = electric_bike
    THEN [stats EXCEPT !.trip_count = @ + 1,
                       !.total_duration = @ + duration,
                       !.electric_duration = @ + duration]
    ELSE [stats EXCEPT !.trip_count = @ + 1,
                       !.total_duration = @ + duration,
                       !.classic_duration = @ + duration]

\* The tallies of one direction after one more trip (lines 326-332,
\* 341-347, 518-524 and 528-534).
AddTrip(stats, duration, bike_type) ==
    IF bike_type = electric_bike
    THEN [stats EXCEPT !.trip_count = @ + 1,
                       !.total_duration = @ + duration,
                       !.electric_count = @ + 1,
                       !.electric_duration = @ + duration]
    ELSE [stats EXCEPT !.trip_count = @ + 1,
                       !.total_duration = @ + duration,
                       !.classic_duration = @ + duration]

\* The twelve quotients of a report row (lines 375-415 and 582-619), from
\* the forward and the reverse tallies.  The bidirectional percentage is
\* divided without a guard.
Metrics(fwd, rev) ==
    LET trip_count_bidir == fwd.trip_count + rev.trip_count
        total_electric == fwd.electric_count + rev.electric_count
    IN  [fwd_e_pct |-> electric_percent(fwd.electric_count, fwd.trip_count),
         rev_e_pct |-> electric_percent(rev.electric_count, rev.trip_count),
         bidir_e_pct |-> Times(Divide(total_electric, trip_count_bidir), 100),
         duration_fwd |-> compute_weighted_average(fwd.total_duration, fwd.trip_count),
         duration_rev |-> compute_weighted_average(rev.total_duration, rev.trip_count),
         duration_bidir |-> compute_weighted_average(
             fwd.total_duration + rev.total_duration, trip_count_bidir),
         e_duration_fwd |-> compute_weighted_average(
             fwd.electric_duration, fwd.electric_count),
         e_duration_rev |-> compute_weighted_average(
             rev.electric_duration, rev.electric_count),
         e_duration_bidir |-> compute_weighted_average(
             fwd.electric_duration + rev.electric_duration, total_electric),
         c_duration_fwd |-> compute_weighted_average(
             fwd.classic_duration, fwd.trip_count - fwd.electric_count),
         c_duration_rev |-> compute_weighted_average(
             rev.classic_duration, rev.trip_count - rev.electric_count),
         c_duration_bidir |-> compute_weighted_average(
             fwd.classic_duration + rev.classic_duration,
             trip_count_bidir - total_electric)]

\* One of the divisions of a row raised ZeroDivisionError.
MetricsRaise(m) == \E f \in DOMAIN m : ZeroDivision(m[f])

\* The sixteen statistic columns both reports share (lines 425-453 and
\* 634-662).
StatColumns(fwd, rev) ==
    LET m == Metrics(fwd, rev)
        trip_count_bidir == fwd.trip_count + rev.trip_count
    IN  [trip_count_fwd |-> fwd.trip_count,
         trip_count_rev |-> rev.trip_count,
         trip_count_bidir |-> trip_count_bidir,
         trip_count |-> [bidir |-> trip_count_bidir, fwd |-> fwd.trip_count,
                         rev |-> rev.trip_count],
         electric_bike_percent_fwd |-> Round(m.fwd_e_pct, 0),
         electric_bike_percent_rev |-> Round(m.rev_e_pct, 0),
         electric_bike_percent_bidir |-> Round(m.bidir_e_pct, 0),
         electric_bike_percent |->
             format_metric(m.bidir_e_pct, m.fwd_e_pct, m.rev_e_pct, "%", 0),
         duration_avg_fwd |-> Round(m.duration_fwd, 1),
         duration_avg_rev |-> Round(m.duration_rev, 1),
         duration_avg_bidir |-> Round(m.duration_bidir, 1),
         duration_avg |->
             format_metric(m.duration_bidir, m.duration_fwd, m.duration_rev, "", 1),
         electric_bike_duration_avg_fwd |-> Round(m.e_duration_fwd, 1),
         electric_bike_duration_avg_rev |-> Round(m.e_duration_rev, 1),
         electric_bike_duration_avg_bidir |-> Round(m.e_duration_bidir, 1),
         electric_bike_duration_avg |->
             format_metric(m.e_duration_bidir, m.e_duration_fwd, m.e_duration_rev, "", 1),
         classic_bike_duration_avg_fwd |-> Round(m.c_duration_fwd, 1),
         classic_bike_duration_avg_rev |-> Round(m.c_duration_rev, 1),
         classic_bike_duration_avg_bidir |-> Round(m.c_duration_bidir, 1),
         classic_bike_duration_avg |->
             format_metric(m.c_duration_bidir, m.c_duration_fwd, m.c_duration_rev, "", 1)]

(* ------------------------------ validity ------------------------------ *)

\* SkipTrip gone wrong: a round trip is let through.
SkipTrip_round_trips_pass(start_id, end_id, coords) ==
    \/ ~Truthy(start_id)
    \/ ~Truthy(end_id)
    \/ start_id \notin DOMAIN coords
    \/ end_id \notin DOMAIN coords

\* Lines 308-311 and 491-494: the two "continue" tests before the try.
SkipTrip(start_id, end_id, coords) ==
    \/ ~Truthy(start_id)
    \/ ~Truthy(end_id)
    \/ start_id = end_id
    \/ start_id \notin DOMAIN coords
    \/ end_id \notin DOMAIN coords

(* --------------------------- analyze_stations ------------------------- *)

\* StationStats.__init__ (lines 249-269).
NewStationStats ==
    [trip_count_fwd |-> 0, trip_count_rev |-> 0,
     electric_count_fwd |-> 0, electric_count_rev |-> 0,
     total_duration_fwd |-> 0, total_duration_rev |-> 0,
     electric_duration_fwd |-> 0, electric_duration_rev |-> 0,
     classic_duration_fwd |-> 0, classic_duration_rev |-> 0,
     station_name |-> <<>>, latitude |-> <<>>, longitude |-> <<>>]

\* stations[station_id] of the defaultdict.
StationGet(st, station_id) ==
    IF station_id \in DOMAIN st THEN st[station_id] ELSE NewStationStats

\* Lines 321-324 and 336-339: the name and the coordinate are set while
\* the stored name is falsy.
CaptureStation(stats, station_id, station_name, coords) ==
    IF ~Truthy(stats.station_name)
    THEN [stats EXCEPT !.station_name = format_station_name(station_id, station_name),
                       !.latitude = coords[station_id].latitude,
                       !.longitude = coords[station_id].longitude]
    ELSE stats

\* UpdateDeparture gone wrong: a classic trip's minutes are not added to
\* the classic sum.
UpdateDeparture_no_classic(stats, duration, bike_type) ==
    IF bike_type = electric_bike
    THEN [stats EXCEPT !.trip_count_fwd = @ + 1,
                       !.total_duration_fwd = @ + duration,
                       !.electric_count_fwd = @ + 1,
                       !.electric_duration_fwd = @ + duration]
    ELSE [stats EXCEPT !.trip_count_fwd = @ + 1,
                       !.total_duration_fwd = @ + duration]

\* Lines 326-332.
UpdateDeparture(stats, duration, bike_type) ==
    IF bike_type = electric_bike
    THEN [stats EXCEPT !.trip_count_fwd = @ + 1,
                       !.total_duration_fwd = @ + duration,
                       !.electric_count_fwd = @ + 1,
                       !.electric_duration_fwd = @ + duration]
    ELSE [stats EXCEPT !.trip_count_fwd = @ + 1,
                       !.total_duration_fwd = @ + duration,
                       !.classic_duration_fwd = @ + duration]

\* UpdateArrival gone wrong: the arrival counted as a departure.
UpdateArrival_as_departure(stats, duration, bike_type) ==
    UpdateDeparture(stats, duration, bike_type)

\* Lines 341-347.
UpdateArrival(stats, duration, bike_type) ==
    IF bike_type = electric_bike
    THEN [stats EXCEPT !.trip_count_rev = @ + 1,
                       !.total_duration_rev = @ + duration,
                       !.electric_count_rev = @ + 1,
                       !.electric_duration_rev = @ + duration]
    ELSE [stats EXCEPT !.trip_count_rev = @ + 1,
                       !.total_duration_rev = @ + duration,
                       !.classic_duration_rev = @ + duration]

\* Lines 319-347: a trip that passed the tests, tallied at its start
\* station and then at its end station.
StationsTally(st, coords, row, duration, bike_type) ==
    LET start_id == row.start_station_id
        end_id == row.end_station_id
        st1 == Put(st, start_id,
                   UpdateDeparture(
                       CaptureStation(StationGet(st, start_id), start_id,
                                      row.start_station_name, coords),
                       duration, bike_type))
    IN  Put(st1, end_id,
            UpdateArrival(
                CaptureStation(StationGet(st1, end_id), end_id,
                               row.end_station_name, coords),
                duration, bike_type))

\* StationsRow gone wrong: a duration that is no number counted as 0.
StationsRow_zero_duration(st, coords, row) ==
    IF SkipTrip(row.start_station_id, row.end_station_id, coords)
    THEN [stations |-> st, exc |-> ""]
    ELSE LET duration == Float(row.duration_minutes)
         IN  IF duration.exc = "TypeError" THEN [stations |-> st, exc |-> duration.exc]
             ELSE [stations |-> StationsTally(st, coords, row, duration.val,
                                              normalize_bike_type(row.rideable_type)),
                   exc |-> ""]

\* One iteration of the loop of lines 303-347: the stations after it, and
\* the exception that left the loop (float(None) raises TypeError, which
\* the try does not catch).
StationsRow(st, coords, row) ==
    IF SkipTrip(row.start_station_id, row.end_station_id, coords)
    THEN [stations |-> st, exc |-> ""]
    ELSE LET duration == Float(row.duration_minutes)
         IN  IF duration.exc = "ValueError" THEN [stations |-> st, exc |-> ""]
             ELSE IF duration.exc # "" THEN [stations |-> st, exc |-> duration.exc]
             ELSE [stations |-> StationsTally(st, coords, row, duration.val,
                                              normalize_bike_type(row.rideable_type)),
                   exc |-> ""]

\* The forward and the reverse tallies of a StationStats, as TripStats.
StationFwd(stats) ==
    [trip_count |-> stats.trip_count_fwd, electric_count |-> stats.electric_count_fwd,
     total_duration |-> stats.total_duration_fwd,
     electric_duration |-> stats.electric_duration_fwd,
     classic_duration |-> stats.classic_duration_fwd]

StationRev(stats) ==
    [trip_count |-> stats.trip_count_rev, electric_count |-> stats.electric_count_rev,
     total_duration |-> stats.total_duration_rev,
     electric_duration |-> stats.electric_duration_rev,
     classic_duration |-> stats.classic_duration_rev]

\* sorted(ids): ascending, as Python orders str.
RECURSIVE SortedIds(_)
SortedIds(S) ==
    IF S = {} THEN <<>>
    ELSE LET least == CHOOSE x \in S : \A y \in S \ {x} : StrLess(x, y)
         IN  << least >> \o SortedIds(S \ {least})

\* Lines 417-454: the row of one station.
StationOutputRow(station_id, stats) ==
    [station_id |-> station_id,
     station_name |-> stats.station_name,
     municipality |-> get_municipality(station_id),
     latitude |-> stats.latitude,
     longitude |-> stats.longitude]
    @@ StatColumns(StationFwd(stats), StationRev(stats))

\* StationKept gone wrong: a station without departures is left out.
StationKept_departures_only(stats) == stats.trip_count_fwd # 0

\* Line 379: a station with no trip is left out.
StationKept(stats) == stats.trip_count_fwd + stats.trip_count_rev # 0

RECURSIVE StationRows(_, _)
StationRows(ids, st) ==
    IF ids = <<>> THEN <<>>
    ELSE IF StationKept(st[Head(ids)])
         THEN << StationOutputRow(Head(ids), st[Head(ids)]) >>
              \o StationRows(Tail(ids), st)
         ELSE StationRows(Tail(ids), st)

\* Lines 368-457: the report, or the ZeroDivisionError of one of its rows.
StationsOutput(st) ==
    IF \E id \in DOMAIN st :
           StationKept(st[id]) /\ MetricsRaise(Metrics(StationFwd(st[id]), StationRev(st[id])))
    THEN [output_rows |-> <<>>, exc |-> "ZeroDivisionError"]
    ELSE [output_rows |-> StationRows(SortedIds(DOMAIN st), st), exc |-> ""]

(* ------------------------- analyze_station_pairs ---------------------- *)

\* The default of the pairs defaultdict (lines 474-483).
NewPair ==
    [start_station_name |-> <<>>, end_station_name |-> <<>>,
     start_lat |-> <<>>, start_lng |-> <<>>, end_lat |-> <<>>, end_lng |-> <<>>,
     stats_fwd |-> NewTripStats, stats_rev |-> NewTripStats]

\* pairs[key] of the defaultdict.
PairGet(ps, key) == IF key \in DOMAIN ps THEN ps[key] ELSE NewPair

\* Lines 506-514 and 537-545: the names and coordinates of the key
\* (first_id, second_id) are set while its stored start name is falsy.
CapturePair(pair, first_id, first_name, second_id, second_name, coords) ==
    IF ~Truthy(pair.start_station_name)
    THEN [pair EXCEPT
              !.start_station_name = format_station_name(first_id, first_name),
              !.end_station_name = format_station_name(second_id, second_name),
              !.start_lat = coords[first_id].latitude,
              !.start_lng = coords[first_id].longitude,
              !.end_lat = coords[second_id].latitude,
              !.end_lng = coords[second_id].longitude]
    ELSE pair

\* UpdateForward gone wrong: the trip is added to both blocks of its key.
UpdateForward_both_blocks(ps, pair_key, duration, bike_type) ==
    Put(ps, pair_key,
        [PairGet(ps, pair_key) EXCEPT !.stats_fwd = AddTrip(@, duration, bike_type),
                                      !.stats_rev = AddTrip(@, duration, bike_type)])

\* Lines 516-524: the forward tallies of the trip's own key.
UpdateForward(ps, pair_key, duration, bike_type) ==
    Put(ps, pair_key,
        [PairGet(ps, pair_key) EXCEPT !.stats_fwd = AddTrip(@, duration, bike_type)])

\* UpdateReverse gone wrong: the reverse tallies of the trip's own key.
UpdateReverse_own_key(ps, rev_key, duration, bike_type) ==
    Put(ps, Mirror(rev_key),
        [PairGet(ps, Mirror(rev_key)) EXCEPT
             !.stats_rev = AddTrip(@, duration, bike_type)])

\* Lines 526-534: the reverse tallies of the mirrored key.
UpdateReverse(ps, rev_key, duration, bike_type) ==
    Put(ps, rev_key,
        [PairGet(ps, rev_key) EXCEPT !.stats_rev = AddTrip(@, duration, bike_type)])

\* Lines 502-545: a trip that passed the tests.
PairsTally(ps, coords, row, duration, bike_type) ==
    LET start_id == row.start_station_id
        end_id == row.end_station_id
        pair_key == << start_id, end_id >>
        rev_key == << end_id, start_id >>
        ps1 == Put(ps, pair_key,
                   CapturePair(PairGet(ps, pair_key), start_id, row.start_station_name,
                               end_id, row.end_station_name, coords))
        ps2 == UpdateForward(ps1, pair_key, duration, bike_type)
        ps3 == UpdateReverse(ps2, rev_key, duration, bike_type)
    IN  Put(ps3, rev_key,
            CapturePair(PairGet(ps3, rev_key), end_id, row.end_station_name,
                        start_id, row.start_station_name, coords))

\* One iteration of the loop of lines 486-545.
PairsRow(ps, coords, row) ==
    IF SkipTrip(row.start_station_id, row.end_station_id, coords)
    THEN [pairs |-> ps, exc |-> ""]
    ELSE LET duration == Float(row.duration_minutes)
         IN  IF duration.exc = "ValueError" THEN [pairs |-> ps, exc |-> ""]
             ELSE IF duration.exc # "" THEN [pairs |-> ps, exc |-> duration.exc]
             ELSE [pairs |-> PairsTally(ps, coords, row, duration.val,
                                        normalize_bike_type(row.rideable_type)),
                   exc |-> ""]

\* k1 < k2 for two keys of sort_id_by_n_and_alpha: tuples (bool, str),
\* False before True.
SortKeyLess(k1, k2) ==
    IF k1.rest # k2.rest THEN k2.rest ELSE StrLess(k1.id, k2.id)

\* Lines 572-575: the order of two pair keys under the key function
\* (sort_id_by_n_and_alpha(start), sort_id_by_n_and_alpha(end)).
PairKeyLess(p, q) ==
    LET p1 == sort_id_by_n_and_alpha(p[1])
        q1 == sort_id_by_n_and_alpha(q[1])
    IN  IF p1 # q1 THEN SortKeyLess(p1, q1)
        ELSE SortKeyLess(sort_id_by_n_and_alpha(p[2]), sort_id_by_n_and_alpha(q[2]))

RECURSIVE SortedPairs(_)
SortedPairs(S) ==
    IF S = {} THEN <<>>
    ELSE LET least == CHOOSE x \in S : \A y \in S \ {x} : PairKeyLess(x, y)
         IN  << least >> \o SortedPairs(S \ {least})

\* Lines 621-663: the row of one pair.
PairOutputRow(key, data) ==
    [start_station |-> key[1],
     start_station_name |-> data.start_station_name,
     start_lat |-> data.start_lat,
     start_lng |-> data.start_lng,
     end_station |-> key[2],
     end_station_name |-> data.end_station_name,
     end_lat |-> data.end_lat,
     end_lng |-> data.end_lng,
     start_municipality |-> get_municipality(key[1]),
     end_municipality |-> get_municipality(key[2])]
    @@ StatColumns(data.stats_fwd, data.stats_rev)

\* PairKept gone wrong: a pair with no forward trip is left out.
PairKept_forward_only(data) == data.stats_fwd.trip_count # 0

\* Line 586: a pair with no trip in either direction is left out.
PairKept(data) == data.stats_fwd.trip_count + data.stats_rev.trip_count # 0

RECURSIVE PairRows(_, _)
PairRows(keys, ps) ==
    IF keys = <<>> THEN <<>>
    ELSE IF PairKept(ps[Head(keys)])
         THEN << PairOutputRow(Head(keys), ps[Head(keys)]) >>
              \o PairRows(Tail(keys), ps)
         ELSE PairRows(Tail(keys), ps)

\* Lines 568-666: the report, or the ZeroDivisionError of one of its rows.
PairsOutput(ps) ==
    IF \E key \in DOMAIN ps :
           PairKept(ps[key]) /\ MetricsRaise(Metrics(ps[key].stats_fwd, ps[key].stats_rev))
    THEN [output_rows |-> <<>>, exc |-> "ZeroDivisionError"]
    ELSE [output_rows |-> PairRows(SortedPairs(DOMAIN ps), ps), exc |-> ""]

(* -------------------------- the functions, whole ---------------------- *)

\* The sums after the loop of lines 132-151 over a list of rows.
RECURSIVE CoordsAfter(_, _)
CoordsAfter(coords, rs) ==
    IF rs = <<>> THEN coords
    ELSE CoordsAfter(CoordsRow(coords, Head(rs)), Tail(rs))

\* Lines 127-162: avg_coords of a batch.
compute_station_coordinates(batch) == ComputeAverages(CoordsAfter(EmptyDict, batch))

\* The stations after the loop of lines 303-347 over a list of rows, and
\* the exception that left it.
RECURSIVE StationsAfter(_, _, _)
StationsAfter(st, coords, rs) ==
    IF rs = <<>> THEN [stations |-> st, exc |-> ""]
    ELSE LET r == StationsRow(st, coords, Head(rs))
         IN  IF r.exc # "" THEN r ELSE StationsAfter(r.stations, coords, Tail(rs))

\* Lines 286-457.
analyze_stations(coords, rs) ==
    LET r == StationsAfter(EmptyDict, coords, rs)
    IN  IF r.exc # "" THEN [output_rows |-> <<>>, exc |-> r.exc]
        ELSE StationsOutput(r.stations)

\* The pairs after the loop of lines 486-545 over a list of rows.
RECURSIVE PairsAfter(_, _, _)
PairsAfter(ps, coords, rs) ==
    IF rs = <<>> THEN [pairs |-> ps, exc |-> ""]
    ELSE LET r == PairsRow(ps, coords, Head(rs))
         IN  IF r.exc # "" THEN r ELSE PairsAfter(r.pairs, coords, Tail(rs))

\* Lines 459-666.
analyze_station_pairs(coords, rs) ==
    LET r == PairsAfter(EmptyDict, coords, rs)
    IN  IF r.exc # "" THEN [output_rows |-> <<>>, exc |-> r.exc]
        ELSE PairsOutput(r.pairs)

\* Lines 699-703: the analysis the command line selects.
analyze(selected, coords, rs) ==
    IF selected = "stations" THEN analyze_stations(coords, rs)
    ELSE analyze_station_pairs(coords, rs)

(* ------------------------------- inputs ------------------------------- *)

\* One record of csv.DictReader: every column of the header is a key, and
\* a column the line is too short for is None.
Row(start_id, start_name, start_lat, start_lng, end_id, end_name, end_lat, end_lng, duration, rideable) ==
    [start_station_id |-> start_id, start_station_name |-> start_name,
     start_lat |-> start_lat, start_lng |-> start_lng,
     end_station_id |-> end_id, end_station_name |-> end_name,
     end_lat |-> end_lat, end_lng |-> end_lng,
     duration_minutes |-> duration, rideable_type |-> rideable]

A1 == << "A", "1" >>
M1 == << "M", "1" >>
N1 == << "N", "1" >>
Elm == << "E", "l", "m" >>
Ash == << "A", "s", "h" >>
Ivy == << "I", "v", "y" >>
Oak == << "O", "a", "k" >>

\* The records the batches are made of: trips between three stations in
\* both bike kinds and in a docked, an unknown, an empty and a missing
\* kind, with the same station under two names or none and at two
\* latitudes, round trips, empty and missing ids, coordinates that are
\* missing or do not parse (one axis or both), and durations that are
\* negative, empty, no number, or missing.
Records ==
    { Row(A1, Elm, <<"4","2">>, <<"-","7","1">>,
          N1, Oak, <<"4","4">>, <<"-","7","3">>, <<"1","0">>, classic_bike),
      Row(N1, Oak, <<"4","4">>, <<"-","7","3">>,
          A1, Elm, <<"4","2">>, <<"-","7","1">>, <<"2","0">>, electric_bike),
      Row(A1, Ash, <<"4","3">>, <<"-","7","1">>,
          N1, Oak, <<"4","4">>, <<"x">>, <<"5">>, electric_bike),
      Row(A1, Elm, <<"4","5">>, <<"-","7","5">>,
          A1, Elm, <<"4","5">>, <<"-","7","5">>, <<"1","0">>, classic_bike),
      Row(M1, Ivy, <<"4","2">>, <<"-","7","1">>,
          M1, Ivy, <<"4","2">>, <<"-","7","1">>, <<"2","0">>, electric_bike),
      Row(A1, Elm, <<"4","2">>, <<"-","7","1">>,
          M1, Ivy, <<"x">>, <<"-","7","1">>, <<"2","0">>, docked_bike),
      Row(M1, <<>>, <<>>, <<>>,
          N1, <<>>, <<"4","4">>, <<"-","7","3">>, <<"1","0">>, <<"s","c","o","o","t","e","r">>),
      Row(<<>>, Elm, <<"4","2">>, <<"-","7","1">>,
          N1, Oak, <<"4","4">>, <<"-","7","3">>, <<"1","0">>, classic_bike),
      Row(N1, Oak, <<"4","4">>, <<"-","7","3">>,
          <<>>, <<>>, <<>>, <<>>, <<"2","0">>, electric_bike),
      Row(A1, Elm, <<"4","2">>, <<"-","7","1">>,
          N1, Oak, <<"4","4">>, <<"-","7","3">>, <<"x">>, electric_bike),
      Row(A1, Elm, <<"4","2">>, <<"-","7","1">>,
          N1, Oak, <<"4","4">>, <<"-","7","3">>, <<>>, classic_bike),
      Row(N1, Oak, <<"4","4">>, <<"-","7","3">>,
          A1, Elm, <<"4","2">>, <<"-","7","1">>, None, None),
      Row(N1, <<>>, <<"4","4">>, <<"-","7","3">>,
          A1, Ash, <<"4","2">>, <<"-","7","1">>, <<"-","5">>, <<>>) }

\* The batches of at most n records.
RECURSIVE Batches(_)
Batches(n) ==
    IF n = 0 THEN { <<>> }
    ELSE LET shorter == Batches(n - 1)
         IN  shorter \cup { Append(b, r) : b \in { x \in shorter : Len(x) = n - 1 },
                                           r \in Records }

NoCall == [fn |-> "", station_id |-> <<>>, station_name |-> <<>>, ret |-> <<>>]

(* ------------------------------- main() ------------------------------- *)

Init ==
    /\ stdin \in Batches(MaxBatch)
    /\ rows = <<>>
    /\ pc = "start"
    /\ i = 0
    /\ station_coords = EmptyDict
    /\ avg_coords = EmptyDict
    /\ mode = ""
    /\ stations = EmptyDict
    /\ pairs = EmptyDict
    /\ output_rows = <<>>
    /\ exc = ""
    /\ call = NoCall

\* Lines 129-130: rows = list(reader).
ReadRows ==
    /\ pc = "start"
    /\ rows' = stdin
    /\ stdin' = <<>>
    /\ pc' = "coordinates"
    /\ i' = 1
    /\ UNCHANGED << station_coords, avg_coords, mode, stations, pairs,
                    output_rows, exc, call >>

\* Lines 132-151: one row of the first pass.
CoordinatesRow ==
    /\ pc = "coordinates"
    /\ i <= Len(rows)
    /\ station_coords' = CoordsRow(station_coords, rows[i])
    /\ i' = i + 1
    /\ UNCHANGED << stdin, rows, pc, avg_coords, mode, stations, pairs,
                    output_rows, exc, call >>

\* CoordinatesDone gone wrong: the averages are taken before the last row
\* has been seen.
CoordinatesDone_before_last_row ==
    /\ pc = "coordinates"
    /\ i >= Len(rows)
    /\ avg_coords' = ComputeAverages(station_coords)
    /\ pc' = "dispatch"
    /\ UNCHANGED << stdin, rows, i, station_coords, mode, stations, pairs,
                    output_rows, exc, call >>

\* Lines 153-162: the averages, once every row has been seen.
CoordinatesDone ==
    /\ pc = "coordinates"
    /\ i > Len(rows)
    /\ avg_coords' = ComputeAverages(station_coords)
    /\ pc' = "dispatch"
    /\ UNCHANGED << stdin, rows, i, station_coords, mode, stations, pairs,
                    output_rows, exc, call >>

\* Lines 700-701: --stations.
RunStations ==
    /\ pc = "dispatch"
    /\ mode' = "stations"
    /\ pc' = "stations"
    /\ i' = 1
    /\ UNCHANGED << stdin, rows, station_coords, avg_coords, stations, pairs,
                    output_rows, exc, call >>

\* Lines 702-703: --station-pairs.
RunStationPairs ==
    /\ pc = "dispatch"
    /\ mode' = "pairs"
    /\ pc' = "pairs"
    /\ i' = 1
    /\ UNCHANGED << stdin, rows, station_coords, avg_coords, stations, pairs,
                    output_rows, exc, call >>

\* Lines 303-347: one row of analyze_stations; an exception the loop does
\* not catch ends the run.
StationsStep ==
    /\ pc = "stations"
    /\ i <= Len(rows)
    /\ LET r == StationsRow(stations, avg_coords, rows[i])
       IN  /\ stations' = r.stations
           /\ exc' = r.exc
           /\ pc' = IF r.exc = "" THEN pc ELSE "crashed"
    /\ i' = i + 1
    /\ UNCHANGED << stdin, rows, station_coords, avg_coords, mode, pairs,
                    output_rows, call >>

\* Lines 349-457: the station report.
StationsReport ==
    /\ pc = "stations"
    /\ i > Len(rows)
    /\ LET r == StationsOutput(stations)
       IN  /\ output_rows' = r.output_rows
           /\ exc' = r.exc
           /\ pc' = IF r.exc = "" THEN "done" ELSE "crashed"
    /\ UNCHANGED << stdin, rows, i, station_coords, avg_coords, mode, stations,
                    pairs, call >>

\* Lines 486-545: one row of analyze_station_pairs.
PairsStep ==
    /\ pc = "pairs"
    /\ i <= Len(rows)
    /\ LET r == PairsRow(pairs, avg_coords, rows[i])
       IN  /\ pairs' = r.pairs
           /\ exc' = r.exc
           /\ pc' = IF r.exc = "" THEN pc ELSE "crashed"
    /\ i' = i + 1
    /\ UNCHANGED << stdin, rows, station_coords, avg_coords, mode, stations,
                    output_rows, call >>

\* Lines 547-666: the pair report.
PairsReport ==
    /\ pc = "pairs"
    /\ i > Len(rows)
    /\ LET r == PairsOutput(pairs)
       IN  /\ output_rows' = r.output_rows
           /\ exc' = r.exc
           /\ pc' = IF r.exc = "" THEN "done" ELSE "crashed"
    /\ UNCHANGED << stdin, rows, i, station_coords, avg_coords, mode, stations,
                    pairs, call >>

Next ==
    \/ ReadRows
    \/ CoordinatesRow
    \/ CoordinatesDone
    \/ RunStations
    \/ RunStationPairs
    \/ StationsStep
    \/ StationsReport
    \/ PairsStep
    \/ PairsReport

Spec == Init /\ [][Next]_vars

(* ----------------------- the naming functions alone ------------------ *)

\* The str of at most n characters.
RECURSIVE Strings(_)
Strings(n) ==
    IF n = 0 THEN { <<>> }
    ELSE LET shorter == Strings(n - 1)
         IN  shorter \cup { Append(s, c) : s \in { x \in shorter : Len(x) = n - 1 },
                                           c \in CharSet }

\* The ids the naming functions are called with: every short str, alone
\* and followed by digits, and None.
IdArgs ==
    { s \o suffix : s \in Strings(MaxIdLen), suffix \in { <<>>, << "3", "2" >> } }
    \cup { None }

NameArgs == { <<>>, None, Elm }

InitNames ==
    /\ call \in { [fn |-> "", station_id |-> id, station_name |-> name, ret |-> <<>>] :
                      id \in IdArgs, name \in NameArgs }
    /\ stdin = <<>>
    /\ rows = <<>>
    /\ pc = "start"
    /\ i = 0
    /\ station_coords = EmptyDict
    /\ avg_coords = EmptyDict
    /\ mode = ""
    /\ stations = EmptyDict
    /\ pairs = EmptyDict
    /\ output_rows = <<>>
    /\ exc = ""

CallGetMunicipality ==
    /\ call.fn = ""
    /\ call' = [call EXCEPT !.fn = "get_municipality",
                            !.ret = get_municipality(call.station_id)]
    /\ UNCHANGED << stdin, rows, pc, i, station_coords, avg_coords, mode,
                    stations, pairs, output_rows, exc >>

CallFormatStationName ==
    /\ call.fn = ""
    /\ call' = [call EXCEPT !.fn = "format_station_name",
                            !.ret = format_station_name(call.station_id,
                                                        call.station_name)]
    /\ UNCHANGED << stdin, rows, pc, i, station_coords, avg_coords, mode,
                    stations, pairs, output_rows, exc >>

NextNames == CallGetMunicipality \/ CallFormatStationName

SpecNames == InitNames /\ [][NextNames]_vars

(* ------------------- the duration sums beyond 2^53 ------------------- *)

\* The sums of a TripStats are Python floats (doubles).  Every whole number
\* the batches above hold, and every sum of them, is far below 2^53, where
\* a double is exact and += is the addition of integers.  Here a double is
\* the record [hi, lo] that stands for hi * 2^53 + lo (hi >= 0 and a small
\* lo >= 0), so that a sum that rounds can be told from one that does not.
Double(hi, lo) == [hi |-> hi, lo |-> lo]

\* The gap between two neighbouring doubles from hi * 2^53 on (hi >= 1):
\* 2 up to 2^54, 4 up to 2^55, 8 up to 2^56.
RECURSIVE Ulp(_)
Ulp(hi) == IF hi < 2 THEN 2 ELSE 2 * Ulp(hi \div 2)

\* x + y of two doubles: the exact sum below 2^53, and from there on the
\* nearest double to the exact sum, a tie going to the even mantissa (the
\* mantissa of hi * 2^53 is even, so the parity is that of lo / gap).
FloatAdd(x, y) ==
    LET hi == x.hi + y.hi
        lo == x.lo + y.lo
    IN  IF hi = 0 THEN Double(0, lo)
        ELSE Double(hi, Ulp(hi) * RoundHalfEven(lo, Ulp(hi)))

\* A TripStats (lines 279-284) with its sums as doubles.
NewTripStatsOfDoubles ==
    [trip_count |-> 0, electric_count |-> 0, total_duration |-> Double(0, 0),
     electric_duration |-> Double(0, 0), classic_duration |-> Double(0, 0)]

\* Lines 518-524, as AddTrip, with the sums as doubles.
AddTripOfDoubles(stats, duration, bike_type) ==
    IF bike_type = electric_bike
    THEN [stats EXCEPT !.trip_count = @ + 1,
                       !.total_duration = FloatAdd(@, duration),
                       !.electric_count = @ + 1,
                       !.electric_duration = FloatAdd(@, duration)]
    ELSE [stats EXCEPT !.trip_count = @ + 1,
                       !.total_duration = FloatAdd(@, duration),
                       !.classic_duration = FloatAdd(@, duration)]

\* The trips added to the block: float(duration_minutes) is 1, 2 or 2^53
\* minutes, and the kind is electric, classic or docked.
TripKinds ==
    { [duration |-> d, rideable_type |-> kind] :
          d \in { Double(0, 1), Double(0, 2), Double(1, 0) },
          kind \in { electric_bike, classic_bike, docked_bike } }

\* The lists of at most n such trips.
RECURSIVE TripLists(_)
TripLists(n) ==
    IF n = 0 THEN { <<>> }
    ELSE LET shorter == TripLists(n - 1)
         IN  shorter \cup { Append(b, t) : b \in { x \in shorter : Len(x) = n - 1 },
                                           t \in TripKinds }

\* One block of analyze_station_pairs about to count the valid trips of a
\* list, one after the other.
InitSums ==
    /\ call \in { [fn |-> "", trips |-> trips, counted |-> <<>>,
                   stats |-> NewTripStatsOfDoubles] : trips \in TripLists(MaxTrips) }
    /\ stdin = <<>>
    /\ rows = <<>>
    /\ pc = "sums"
    /\ i = 0
    /\ station_coords = EmptyDict
    /\ avg_coords = EmptyDict
    /\ mode = ""
    /\ stations = EmptyDict
    /\ pairs = EmptyDict
    /\ output_rows = <<>>
    /\ exc = ""

\* Lines 516-524: the next trip of the list is added to the block.
CallAddTrip ==
    /\ pc = "sums"
    /\ call.trips # <<>>
    /\ LET trip == Head(call.trips)
       IN  call' = [fn |-> "AddTrip",
                    trips |-> Tail(call.trips),
                    counted |-> Append(call.counted, trip),
                    stats |-> AddTripOfDoubles(call.stats, trip.duration,
                                               normalize_bike_type(trip.rideable_type))]
    /\ UNCHANGED << stdin, rows, pc, i, station_coords, avg_coords, mode,
                    stations, pairs, output_rows, exc >>

\* The block after the trips of a list have been added one after the other.
RECURSIVE AddTripsOfDoubles(_, _)
AddTripsOfDoubles(stats, trips) ==
    IF trips = <<>> THEN stats
    ELSE AddTripsOfDoubles(AddTripOfDoubles(stats, Head(trips).duration,
                                            normalize_bike_type(Head(trips).rideable_type)),
                           Tail(trips))

\* The whole program over its batches, and the block over its lists.
InitWithSums == Init \/ InitSums

NextWithSums == Next \/ CallAddTrip

SpecSums == InitWithSums /\ [][NextWithSums]_vars

(* ------------------------- what the claims speak of ------------------- *)

\* The sum of the values of a function with a finite domain.
RECURSIVE SumFn(_)
SumFn(f) ==
    IF DOMAIN f = {} THEN 0
    ELSE LET k == CHOOSE x \in DOMAIN f : TRUE
         IN  f[k] + SumFn([x \in (DOMAIN f) \ {k} |-> f[x]])

\* The four conditions of a valid trip: both ids non-empty, origin and
\* destination different, both ids resolved to a coordinate, and a
\* duration that parses as a number.
ValidTrip(row, coords) ==
    /\ row.start_station_id \notin { <<>>, None }
    /\ row.end_station_id \notin { <<>>, None }
    /\ row.start_station_id # row.end_station_id
    /\ row.start_station_id \in DOMAIN coords
    /\ row.end_station_id \in DOMAIN coords
    /\ Float(row.duration_minutes).exc = ""

\* The rows the running second pass has been through.
Processed == IF pc \in { "stations", "pairs" } THEN 1..(i - 1) ELSE 1..Len(rows)

\* The valid trips among them.
ValidProcessed == { k \in Processed : ValidTrip(rows[k], avg_coords) }

IsElectric(row) == row.rideable_type = electric_bike

\* The tallies of a set of trips, counted one by one.
TalliesOf(trips) ==
    [trip_count |-> Cardinality(trips),
     electric_count |-> Cardinality({ k \in trips : IsElectric(rows[k]) }),
     total_duration |-> SumFn([k \in trips |-> Float(rows[k].duration_minutes).val]),
     electric_duration |->
         SumFn([k \in { x \in trips : IsElectric(rows[x]) } |->
                    Float(rows[k].duration_minutes).val]),
     classic_duration |->
         SumFn([k \in { x \in trips : ~IsElectric(rows[x]) } |->
                    Float(rows[k].duration_minutes).val])]

\* The station ids and the ordered pairs of ids of the batch.
BatchIds ==
    { rows[k].start_station_id : k \in 1..Len(rows) }
    \cup { rows[k].end_station_id : k \in 1..Len(rows) }

\* The index of the row of a report under a key, 0 when it has none.
StationRowAt(id) ==
    IF \E n \in 1..Len(output_rows) : output_rows[n].station_id = id
    THEN CHOOSE n \in 1..Len(output_rows) : output_rows[n].station_id = id
    ELSE 0

PairRowAt(key) ==
    IF \E n \in 1..Len(output_rows) :
           << output_rows[n].start_station, output_rows[n].end_station >> = key
    THEN CHOOSE n \in 1..Len(output_rows) :
             << output_rows[n].start_station, output_rows[n].end_station >> = key
    ELSE 0

StationsDone == pc = "done" /\ mode = "stations"

PairsDone == pc = "done" /\ mode = "pairs"

(* --------------------------------- C1 --------------------------------- *)

\* C1: after any prefix of the batch, the forward block of every key
\* (A,B) of analyze_station_pairs equals the reverse block of key (B,A) in
\* all five fields, the mirrored key being present whenever the key is;
\* and in the pair report the forward statistic columns of row (A,B)
\* equal the reverse statistic columns of row (B,A).
C1_PairSymmetry ==
    /\ \A key \in DOMAIN pairs :
           /\ Mirror(key) \in DOMAIN pairs
           /\ pairs[key].stats_fwd = pairs[Mirror(key)].stats_rev
    /\ PairsDone =>
           \A n \in 1..Len(output_rows) :
               LET row == output_rows[n]
                   m == PairRowAt(<< row.end_station, row.start_station >>)
               IN  /\ m # 0
                   /\ row.trip_count_fwd = output_rows[m].trip_count_rev
                   /\ row.electric_bike_percent_fwd
                          = output_rows[m].electric_bike_percent_rev
                   /\ row.duration_avg_fwd = output_rows[m].duration_avg_rev
                   /\ row.electric_bike_duration_avg_fwd
                          = output_rows[m].electric_bike_duration_avg_rev
                   /\ row.classic_bike_duration_avg_fwd
                          = output_rows[m].classic_bike_duration_avg_rev

\* A pair report whose row (A,B) has two forward trips, one of them
\* electric, and one reverse trip.
C1_Witness ==
    /\ PairsDone
    /\ \E n \in 1..Len(output_rows) :
           /\ output_rows[n].trip_count_fwd = 2
           /\ output_rows[n].trip_count_rev = 1
           /\ output_rows[n].electric_bike_percent_fwd = 50

(* --------------------------------- C2 --------------------------------- *)

\* C2: in the station report, trip_count_fwd summed over all rows equals
\* trip_count_rev summed over all rows, and both equal the number of valid
\* trips of the batch.
C2_Conservation ==
    StationsDone =>
        /\ SumFn([n \in 1..Len(output_rows) |-> output_rows[n].trip_count_fwd])
               = Cardinality(ValidProcessed)
        /\ SumFn([n \in 1..Len(output_rows) |-> output_rows[n].trip_count_rev])
               = Cardinality(ValidProcessed)

\* A station report of a batch with two valid trips and an excluded one.
C2_Witness ==
    /\ StationsDone
    /\ Cardinality(ValidProcessed) = 2
    /\ Len(rows) = 3
    /\ Len(output_rows) >= 2

(* --------------------------------- C3 --------------------------------- *)

\* The trips a dict of stations and a dict of pairs have counted.
CountedByStations(st) == SumFn([id \in DOMAIN st |-> st[id].trip_count_fwd])

CountedByPairs(ps) == SumFn([key \in DOMAIN ps |-> ps[key].stats_fwd.trip_count])

\* C3: each pass counts the record it is at if and only if the record
\* meets the four conditions of a valid trip; a record that fails one of
\* them changes no accumulator of the pass, and the two passes decide by
\* the same rule.
C3_ValidityRule ==
    [][ /\ (pc = "stations" /\ i <= Len(rows)) =>
               IF ValidTrip(rows[i], avg_coords)
               THEN CountedByStations(stations') = CountedByStations(stations) + 1
               ELSE stations' = stations
        /\ (pc = "pairs" /\ i <= Len(rows)) =>
               IF ValidTrip(rows[i], avg_coords)
               THEN CountedByPairs(pairs') = CountedByPairs(pairs) + 1
               ELSE pairs' = pairs ]_vars

\* The pair pass has counted its first record and left out its second,
\* whose ids are resolved and different: its duration does not parse.
C3_Witness ==
    /\ pc = "pairs"
    /\ i = 3
    /\ ValidTrip(rows[1], avg_coords)
    /\ ~ValidTrip(rows[2], avg_coords)
    /\ ~SkipTrip(rows[2].start_station_id, rows[2].end_station_id, avg_coords)
    /\ CountedByPairs(pairs) = 1

(* --------------------------------- C4 --------------------------------- *)

\* A list without its k-th element, and without its round trips.
RemoveAt(rs, k) == SubSeq(rs, 1, k - 1) \o SubSeq(rs, k + 1, Len(rs))

IsRoundTrip(row) == row.start_station_id = row.end_station_id

RECURSIVE WithoutRoundTrips(_)
WithoutRoundTrips(rs) ==
    IF rs = <<>> THEN <<>>
    ELSE IF IsRoundTrip(Head(rs)) THEN WithoutRoundTrips(Tail(rs))
    ELSE << Head(rs) >> \o WithoutRoundTrips(Tail(rs))

\* C4 as claimed: a record whose origin is its destination leaves no
\* evidence in either report: the report, coordinate columns included, is
\* the one the whole program produces from the batch without that record.
C4_NoEvidenceOfRoundTrip ==
    pc = "done" =>
        \A k \in 1..Len(rows) :
            IsRoundTrip(rows[k]) =>
                analyze(mode, compute_station_coordinates(RemoveAt(rows, k)),
                        RemoveAt(rows, k))
                    = [output_rows |-> output_rows, exc |-> ""]

\* C4 as amended: a record whose origin is its destination contributes to
\* no accumulator of either pass: after any prefix the stations and the
\* pairs are those the pass builds from the prefix without its round
\* trips, and each report is the one the pass produces, under the same
\* coordinate map, from the batch without that record.  (The coordinate
\* map itself is averaged over the record's coordinates as well.)
C4_RoundTripNotTallied ==
    /\ (pc \in { "stations", "done" } /\ mode = "stations") =>
           stations = StationsAfter(EmptyDict, avg_coords,
                          WithoutRoundTrips(SubSeq(rows, 1, Cardinality(Processed)))).stations
    /\ (pc \in { "pairs", "done" } /\ mode = "pairs") =>
           pairs = PairsAfter(EmptyDict, avg_coords,
                       WithoutRoundTrips(SubSeq(rows, 1, Cardinality(Processed)))).pairs
    /\ pc = "done" =>
           \A k \in 1..Len(rows) :
               IsRoundTrip(rows[k]) =>
                   analyze(mode, avg_coords, RemoveAt(rows, k))
                       = [output_rows |-> output_rows, exc |-> ""]

\* A finished report of a batch that holds a round trip at a resolved
\* station together with trips that were counted.
C4_Witness ==
    /\ pc = "done"
    /\ output_rows # <<>>
    /\ \E k \in 1..Len(rows) :
           /\ IsRoundTrip(rows[k])
           /\ rows[k].start_station_id \in DOMAIN avg_coords

(* --------------------------------- C5 --------------------------------- *)

\* The valid trips gone through that leave from, and arrive at, a station.
DeparturesOf(id) == { k \in ValidProcessed : rows[k].start_station_id = id }

ArrivalsOf(id) == { k \in ValidProcessed : rows[k].end_station_id = id }

\* C5: in analyze_stations every station's forward tallies (trip count,
\* electric count, total, electric and classic duration) are the totals
\* over exactly the valid trips leaving from it, and its reverse tallies
\* those over exactly the valid trips arriving at it; a station without
\* an accumulator has no such trip, and the report's row of each station
\* shows these counts.
C5_StationTotals ==
    (mode = "stations" /\ pc \in { "stations", "done" }) =>
        /\ \A id \in BatchIds \cup DOMAIN stations :
               IF id \in DOMAIN stations
               THEN /\ StationFwd(stations[id]) = TalliesOf(DeparturesOf(id))
                    /\ StationRev(stations[id]) = TalliesOf(ArrivalsOf(id))
               ELSE DeparturesOf(id) = {} /\ ArrivalsOf(id) = {}
        /\ pc = "done" =>
               /\ \A id \in DOMAIN stations : StationRowAt(id) # 0
               /\ \A n \in 1..Len(output_rows) :
                      LET id == output_rows[n].station_id
                      IN  /\ output_rows[n].trip_count_fwd = Cardinality(DeparturesOf(id))
                          /\ output_rows[n].trip_count_rev = Cardinality(ArrivalsOf(id))

\* The scenario of the specification: A to B classic for 10 minutes, B to A
\* electric for 20, A to B electric for 5; station A has two departures
\* and one arrival.
C5_Witness ==
    /\ StationsDone
    /\ \E id \in DOMAIN stations :
           /\ StationFwd(stations[id])
                  = [trip_count |-> 2, electric_count |-> 1, total_duration |-> 15,
                     electric_duration |-> 5, classic_duration |-> 10]
           /\ StationRev(stations[id])
                  = [trip_count |-> 1, electric_count |-> 1, total_duration |-> 20,
                     electric_duration |-> 20, classic_duration |-> 0]
           /\ output_rows[StationRowAt(id)].trip_count_fwd = 2
           /\ output_rows[StationRowAt(id)].trip_count_rev = 1

(* --------------------------------- C6 --------------------------------- *)

\* The valid trips gone through from one station to another.
TripsAlong(key) ==
    { k \in ValidProcessed :
          << rows[k].start_station_id, rows[k].end_station_id >> = key }

\* C6: in analyze_station_pairs the forward block of every key (A,B) holds
\* the totals over exactly the valid trips from A to B and its reverse
\* block those over exactly the valid trips from B to A; a pair without
\* an accumulator has no such trip, and the report's row of each pair
\* shows these counts.
C6_PairTotals ==
    (mode = "pairs" /\ pc \in { "pairs", "done" }) =>
        /\ \A key \in (BatchIds \X BatchIds) \cup DOMAIN pairs :
               IF key \in DOMAIN pairs
               THEN /\ pairs[key].stats_fwd = TalliesOf(TripsAlong(key))
                    /\ pairs[key].stats_rev = TalliesOf(TripsAlong(Mirror(key)))
               ELSE TripsAlong(key) = {} /\ TripsAlong(Mirror(key)) = {}
        /\ pc = "done" =>
               /\ \A key \in DOMAIN pairs : PairRowAt(key) # 0
               /\ \A n \in 1..Len(output_rows) :
                      LET key == << output_rows[n].start_station,
                                    output_rows[n].end_station >>
                      IN  /\ output_rows[n].trip_count_fwd
                                 = Cardinality(TripsAlong(key))
                          /\ output_rows[n].trip_count_rev
                                 = Cardinality(TripsAlong(Mirror(key)))

\* The scenario of the specification, in the pair report: the forward
\* block of (A,B) has two trips, one electric, 10 classic and 5 electric
\* minutes; its reverse block one electric trip of 20 minutes.
C6_Witness ==
    /\ PairsDone
    /\ \E key \in DOMAIN pairs :
           /\ pairs[key].stats_fwd
                  = [trip_count |-> 2, electric_count |-> 1, total_duration |-> 15,
                     electric_duration |-> 5, classic_duration |-> 10]
           /\ pairs[key].stats_rev
                  = [trip_count |-> 1, electric_count |-> 1, total_duration |-> 20,
                     electric_duration |-> 20, classic_duration |-> 0]
           /\ output_rows[PairRowAt(key)].trip_count_fwd = 2

(* --------------------------------- C7 --------------------------------- *)

\* A report row whose every metric with a zero divisor is 0: the forward
\* and reverse trip counts, the electric sub-counts, the classic
\* sub-counts (trips less electric trips) and their bidirectional sums.
ZeroDivisorsGiveZero(fwd, rev, row) ==
    /\ fwd.trip_count = 0 =>
           /\ row.electric_bike_percent_fwd = 0 /\ row.electric_bike_percent.fwd = 0
           /\ row.duration_avg_fwd = 0 /\ row.duration_avg.fwd = 0
    /\ rev.trip_count = 0 =>
           /\ row.electric_bike_percent_rev = 0 /\ row.electric_bike_percent.rev = 0
           /\ row.duration_avg_rev = 0 /\ row.duration_avg.rev = 0
    /\ fwd.electric_count = 0 =>
           /\ row.electric_bike_duration_avg_fwd = 0
           /\ row.electric_bike_duration_avg.fwd = 0
    /\ rev.electric_count = 0 =>
           /\ row.electric_bike_duration_avg_rev = 0
           /\ row.electric_bike_duration_avg.rev = 0
    /\ fwd.electric_count + rev.electric_count = 0 =>
           /\ row.electric_bike_duration_avg_bidir = 0
           /\ row.electric_bike_duration_avg.bidir = 0
    /\ fwd.trip_count - fwd.electric_count = 0 =>
           /\ row.classic_bike_duration_avg_fwd = 0
           /\ row.classic_bike_duration_avg.fwd = 0
    /\ rev.trip_count - rev.electric_count = 0 =>
           /\ row.classic_bike_duration_avg_rev = 0
           /\ row.classic_bike_duration_avg.rev = 0
    /\ (fwd.trip_count + rev.trip_count) - (fwd.electric_count + rev.electric_count) = 0 =>
           /\ row.classic_bike_duration_avg_bidir = 0
           /\ row.classic_bike_duration_avg.bidir = 0

\* C7: no run ends in a ZeroDivisionError (the unguarded bidirectional
\* percentage is only computed for an accumulator with a trip), every
\* accumulator with a trip has its row, and in both reports every
\* percentage and average whose divisor is zero is reported as 0.
C7_ZeroCountSafety ==
    /\ exc # "ZeroDivisionError"
    /\ StationsDone =>
           \A id \in DOMAIN stations :
               /\ StationRowAt(id) # 0
               /\ ZeroDivisorsGiveZero(StationFwd(stations[id]), StationRev(stations[id]),
                                       output_rows[StationRowAt(id)])
    /\ PairsDone =>
           \A key \in DOMAIN pairs :
               /\ PairRowAt(key) # 0
               /\ ZeroDivisorsGiveZero(pairs[key].stats_fwd, pairs[key].stats_rev,
                                       output_rows[PairRowAt(key)])

\* A station report with a station that has arrivals only: its forward
\* percentage and forward average duration are 0.
C7_Witness ==
    /\ StationsDone
    /\ \E n \in 1..Len(output_rows) :
           /\ output_rows[n].trip_count_fwd = 0
           /\ output_rows[n].trip_count_rev > 0
           /\ output_rows[n].electric_bike_percent_fwd = 0
           /\ output_rows[n].duration_avg_fwd = 0
           /\ output_rows[n].duration_avg_rev > 0

(* --------------------------------- C8 --------------------------------- *)

\* An id whose first character is the Newton marker.
IsNewtonId(id) == id[1] = "N"

\* The order of two ids at one level of the key: Newton ids first, then
\* ascending.
IdBefore(a, b) ==
    IF IsNewtonId(a) # IsNewtonId(b) THEN IsNewtonId(a) ELSE StrLess(a, b)

PlaceOf(c) ==
    CASE c \in { "A", "B", "C", "D", "E", "F", "G", "H",
                 "a", "b", "c", "d", "e", "f", "g", "h" } -> Boston
      [] c \in { "V", "v" } -> << "M","e","d","f","o","r","d" >>
      [] c \in { "W", "w" } -> << "W","a","t","e","r","t","o","w","n" >>
      [] c \in { "T", "t" } -> << "S","a","l","e","m" >>
      [] c \in { "K", "k" } -> << "B","r","o","o","k","l","i","n","e" >>
      [] c \in { "L", "l" } -> << "L","e","x","i","n","g","t","o","n" >>
      [] c \in { "M", "m" } -> << "C","a","m","b","r","i","d","g","e" >>
      [] c \in { "N", "n" } -> << "N","e","w","t","o","n" >>
      [] c \in { "R", "r" } -> << "R","e","v","e","r","e" >>
      [] c \in { "S", "s" } -> << "S","o","m","e","r","v","i","l","l","e" >>
      [] OTHER -> <<>>

\* C9: get_municipality returns, for every id, the place of the id's
\* leading character whatever its case (A to H: Boston; V, W, T, K, L, M,
\* N, R, S: one place each), and the empty str for every other leading
\* character, for the empty id and for a missing id; the call returns for
\* every id.
C9_MunicipalityOfPrefix ==
    call.fn = "get_municipality" =>
        call.ret = IF call.station_id \in { <<>>, None } THEN <<>>
                   ELSE PlaceOf(call.station_id[1])

(* --------------------------------- C10 -------------------------------- *)

\* C10 as claimed: whenever a municipality is resolved for the id, the
\* result is "<municipality>: <original name>", whatever the name; else
\* it is the original name.
C10_PrefixedWheneverResolved ==
    call.fn = "format_station_name" =>
        call.ret = IF get_municipality(call.station_id) # <<>>
                   THEN get_municipality(call.station_id) \o << ":", " " >>
                            \o call.station_name
                   ELSE call.station_name

\* C10 as amended: the result is "<municipality>: <original name>"
\* whenever a municipality is resolved for the id and the original name
\* is not empty (nor missing); otherwise, an empty or missing name
\* included, it is the original name unchanged.
C10_PrefixedWhenNamed ==
    call.fn = "format_station_name" =>
        call.ret = IF /\ get_municipality(call.station_id) # <<>>
                      /\ call.station_name \notin { <<>>, None }
                   THEN get_municipality(call.station_id) \o << ":", " " >>
                            \o call.station_name
                   ELSE call.station_name

\* format_station_name has returned "Watertown: Elm".
C10_Witness ==
    /\ call.fn = "format_station_name"
    /\ call.station_id = << "W", "3", "2" >>
    /\ call.station_name = Elm
    /\ call.ret = << "W","a","t","e","r","t","o","w","n", ":", " ", "E","l","m" >>

(* --------------------------------- C11 -------------------------------- *)

\* One direction's tallies before and after a trip of a kind and a
\* duration: an electric trip is added to the electric count and the
\* electric sum only, any other trip to the classic sum only.
TalliedByKind(before, after, kind, duration) ==
    IF kind = << "e","l","e","c","t","r","i","c","_","b","i","k","e" >>
    THEN /\ after.electric_count = before.electric_count + 1
         /\ after.electric_duration = before.electric_duration + duration
         /\ after.classic_duration = before.classic_duration
    ELSE /\ after.electric_count = before.electric_count
         /\ after.electric_duration = before.electric_duration
         /\ after.classic_duration = before.classic_duration + duration

PairRowsAt(key) ==
    { n \in 1..Len(output_rows) :
          << output_rows[n].start_station, output_rows[n].end_station >> = key }

\* C12: the pair report has a row for the ordered pair (A,B), and then
\* exactly one, if and only if the batch holds a valid trip from A to B or
\* a valid trip from B to A; so the rows of (A,B) and (B,A) appear
\* together, and no row has zero combined trips.
C12_PairRowsIffTrips ==
    PairsDone =>
        /\ \A key \in (BatchIds \X BatchIds) \cup DOMAIN pairs :
               /\ PairRowsAt(key) # {}
                      <=> (TripsAlong(key) # {} \/ TripsAlong(Mirror(key)) # {})
               /\ Cardinality(PairRowsAt(key)) <= 1
               /\ PairRowsAt(key) # {} <=> PairRowsAt(Mirror(key)) # {}
        /\ \A n \in 1..Len(output_rows) :
               /\ << output_rows[n].start_station, output_rows[n].end_station >>
                      \in BatchIds \X BatchIds
               /\ output_rows[n].trip_count_bidir > 0
               /\ output_rows[n].trip_count_fwd + output_rows[n].trip_count_rev > 0

\* A pair report with a row that has reverse trips only (it is there for
\* the trips of its mirror), of a batch that also has a record between two
\* different stations that is no valid trip and has no row.
C12_Witness ==
    /\ PairsDone
    /\ \E n \in 1..Len(output_rows) :
           /\ output_rows[n].trip_count_fwd = 0
           /\ output_rows[n].trip_count_rev > 0
    /\ \E k \in 1..Len(rows) :
           /\ Truthy(rows[k].start_station_id)
           /\ Truthy(rows[k].end_station_id)
           /\ rows[k].start_station_id # rows[k].end_station_id
           /\ PairRowsAt(<< rows[k].start_station_id, rows[k].end_station_id >>) = {}

(* --------------------------------- C13 -------------------------------- *)

\* C13: no record of the batch, whatever it lacks (a station id, a
\* coordinate, a duration, a known bike kind) and whatever of it does not
\* parse, ends the run with an error: no exception leaves the coordinate
\* pass or the chosen aggregation pass, and the pass that has been
\* through every record has a report to write.
C13_NoRowErrorSurfaced ==
    /\ exc = ""
    /\ pc # "crashed"
    /\ (pc \in { "stations", "pairs" } /\ i > Len(rows)) =>
           analyze(mode, avg_coords, rows).exc = ""

(* --------------------------------- C14 -------------------------------- *)

\* The running sums of a station id, zero while it has no entry.
SumsOf(coords, id) == IF id \in DOMAIN coords THEN coords[id] ELSE NewCoordSums

\* An endpoint that is complete: its id, latitude and longitude are all
\* there and both coordinates parse as numbers.
GoodEndpoint(id, lat, lng) ==
    /\ id \notin { <<>>, None }
    /\ lat \notin { <<>>, None }
    /\ lng \notin { <<>>, None }
    /\ Float(lat).exc = ""
    /\ Float(lng).exc = ""

\* What one endpoint may add to the sums of a station id.
EndpointShare(station, id, lat, lng) ==
    IF id = station /\ GoodEndpoint(id, lat, lng)
    THEN [lat_sum |-> Float(lat).val, lng_sum |-> Float(lng).val, count |-> 1]
    ELSE NewCoordSums

\* C14: in a step of the coordinate pass over one record, an endpoint
\* whose id, latitude or longitude is absent or whose latitude or
\* longitude does not parse leaves the latitude sum, the longitude sum and
\* the count of every station unchanged: each station's sums grow by the
\* coordinates of the record's complete endpoints at that station and by
\* nothing else (the other endpoint is still processed), and the record
\* stays in the batch for the second pass.
C14_BadEndpointAddsNothing ==
    [][ (pc = "coordinates" /\ i <= Len(rows)) =>
            /\ rows' = rows
            /\ \A station \in BatchIds \cup DOMAIN station_coords' :
                   LET old == SumsOf(station_coords, station)
                       new == SumsOf(station_coords', station)
                       s == EndpointShare(station, rows[i].start_station_id,
                                          rows[i].start_lat, rows[i].start_lng)
                       e == EndpointShare(station, rows[i].end_station_id,
                                          rows[i].end_lat, rows[i].end_lng)
                   IN  /\ new.lat_sum = old.lat_sum + s.lat_sum + e.lat_sum
                       /\ new.lng_sum = old.lng_sum + s.lng_sum + e.lng_sum
                       /\ new.count = old.count + s.count + e.count ]_vars

(* --------------------------------- C15 -------------------------------- *)

\* The station ids with at least one valid coordinate observation, as
\* origin or as destination, anywhere in the batch.
ObservedIds ==
    { id \in BatchIds :
          \E k \in 1..Len(rows) :
              \/ /\ rows[k].start_station_id = id
                 /\ GoodEndpoint(id, rows[k].start_lat, rows[k].start_lng)
              \/ /\ rows[k].end_station_id = id
                 /\ GoodEndpoint(id, rows[k].end_lat, rows[k].end_lng) }

\* A record that only the coordinate map can exclude: its ids are there
\* and differ, and its duration parses.
OtherwiseValid(row) ==
    /\ row.start_station_id \notin { <<>>, None }
    /\ row.end_station_id \notin { <<>>, None }
    /\ row.start_station_id # row.end_station_id
    /\ Float(row.duration_minutes).exc = ""

\* C15: nothing is accumulated while the coordinate pass is under way; the
\* coordinate map the accumulation pass works with holds exactly the ids
\* with a valid coordinate observation somewhere in the whole batch; and
\* the pass drops an otherwise valid trip exactly when one of its two ids
\* has no valid observation in the whole batch, later records included.
C15_CoordinatesBeforeAccumulation ==
    [][ /\ pc' \in { "start", "coordinates" } =>
               stations' = EmptyDict /\ pairs' = EmptyDict /\ output_rows' = <<>>
        /\ pc' \in { "dispatch", "stations", "pairs", "done", "crashed" } =>
               DOMAIN avg_coords' = ObservedIds'
        /\ (pc = "stations" /\ i <= Len(rows) /\ OtherwiseValid(rows[i])) =>
               (stations' = stations
                    <=> \E id \in { rows[i].start_station_id, rows[i].end_station_id } :
                            id \notin ObservedIds)
        /\ (pc = "pairs" /\ i <= Len(rows) /\ OtherwiseValid(rows[i])) =>
               (pairs' = pairs
                    <=> \E id \in { rows[i].start_station_id, rows[i].end_station_id } :
                            id \notin ObservedIds) ]_vars

\* The aggregation pass has counted its first record, whose destination
\* has no valid observation in that record: the only one comes later.
C15_Witness ==
    /\ pc \in { "stations", "pairs" }
    /\ i = 2
    /\ CountedByStations(stations) + CountedByPairs(pairs) = 1
    /\ ~GoodEndpoint(rows[1].end_station_id, rows[1].end_lat, rows[1].end_lng)
    /\ rows[1].end_station_id \in ObservedIds

(* --------------------------------- C16 -------------------------------- *)

\* A block that has gained exactly one trip of a kind and a duration.
GainedOneTrip(before, after, kind, duration) ==
    /\ after.trip_count = before.trip_count + 1
    /\ after.total_duration = before.total_duration + duration
    /\ TalliedByKind(before, after, kind, duration)

\* C16: a step of analyze_station_pairs over a valid trip from A to B adds
\* that one trip to the forward block of (A,B) and to the reverse block of
\* (B,A) and changes no other statistics: the reverse block of (A,B), the
\* forward block of (B,A) and both blocks of every other key are as they
\* were, and no other key appears or disappears.
C16_PairStepFrame ==
    [][ (pc = "pairs" /\ i <= Len(rows) /\ ValidTrip(rows[i], avg_coords)) =>
            LET row == rows[i]
                duration == Float(row.duration_minutes).val
                key == << row.start_station_id, row.end_station_id >>
                mirror == << row.end_station_id, row.start_station_id >>
            IN  /\ DOMAIN pairs' = DOMAIN pairs \cup { key, mirror }
                /\ GainedOneTrip(PairGet(pairs, key).stats_fwd, pairs'[key].stats_fwd,
                                 row.rideable_type, duration)
                /\ GainedOneTrip(PairGet(pairs, mirror).stats_rev,
                                 pairs'[mirror].stats_rev, row.rideable_type, duration)
                /\ pairs'[key].stats_rev = PairGet(pairs, key).stats_rev
                /\ pairs'[mirror].stats_fwd = PairGet(pairs, mirror).stats_fwd
                /\ \A other \in DOMAIN pairs' \ { key, mirror } :
                       /\ pairs'[other].stats_fwd = pairs[other].stats_fwd
                       /\ pairs'[other].stats_rev = pairs[other].stats_rev ]_vars

\* The pair pass has counted two trips between different pairs of
\* stations: the second found the two keys of the first with their
\* statistics and left them as they were.
C16_Witness ==
    /\ pc = "pairs"
    /\ i = 4
    /\ \A k \in 2..3 : ValidTrip(rows[k], avg_coords)
    /\ Cardinality(DOMAIN pairs) = 4
    /\ LET first == << rows[2].start_station_id, rows[2].end_station_id >>
           second == << rows[3].start_station_id, rows[3].end_station_id >>
       IN  /\ pairs[first].stats_fwd.trip_count = 1
           /\ pairs[Mirror(first)].stats_rev.trip_count = 1
           /\ pairs[second].stats_fwd.trip_count = 1
           /\ pairs[second].stats_rev.trip_count = 0

(* --------------------------------- C17 -------------------------------- *)

\* The name and the coordinate a station accumulator shows.
StationCaptured(stats) ==
    << stats.station_name, stats.latitude, stats.longitude >>

\* C17: in analyze_stations the name and the coordinate of a station are
\* captured once, by the first valid trip that touches it: a step over a
\* valid trip gives a station it creates the formatted name of the record
\* and the averaged coordinate, and no step changes the name, latitude or
\* longitude of a station that a valid trip has touched before.
C17_StationCapturedOnce ==
    [][ (pc = "stations" /\ i <= Len(rows)) =>
            /\ \A id \in DOMAIN stations :
                   StationCaptured(stations'[id]) = StationCaptured(stations[id])
            /\ \A id \in DOMAIN stations' \ DOMAIN stations :
                   /\ stations'[id].latitude = avg_coords[id].latitude
                   /\ stations'[id].longitude = avg_coords[id].longitude
                   /\ stations'[id].station_name
                          \in { format_station_name(id, rows[i].start_station_name),
                                format_station_name(id, rows[i].end_station_name) } ]_vars

(* --------------------------------- C18 -------------------------------- *)

\* The names and the coordinates a pair accumulator shows.
PairCaptured(data) ==
    << data.start_station_name, data.end_station_name,
       data.start_lat, data.start_lng, data.end_lat, data.end_lng >>

\* C18: in analyze_station_pairs the names and coordinates of a key are
\* captured by the first valid trip that touches the key, as its own key
\* or as its mirror, and no later step overwrites them; the key of a trip
\* takes the names in the record's order and the mirror key in the
\* opposite order, each when it is created, whether or not the other has
\* been captured before.
C18_PairCapturedOnce ==
    [][ (pc = "pairs" /\ i <= Len(rows)) =>
            /\ \A key \in DOMAIN pairs :
                   PairCaptured(pairs'[key]) = PairCaptured(pairs[key])
            /\ \A key \in DOMAIN pairs' \ DOMAIN pairs :
                   LET own == key = << rows[i].start_station_id, rows[i].end_station_id >>
                       first_name == IF own THEN rows[i].start_station_name
                                     ELSE rows[i].end_station_name
                       second_name == IF own THEN rows[i].end_station_name
                                      ELSE rows[i].start_station_name
                   IN  PairCaptured(pairs'[key])
                           = << format_station_name(key[1], first_name),
                                format_station_name(key[2], second_name),
                                avg_coords[key[1]].latitude, avg_coords[key[1]].longitude,
                                avg_coords[key[2]].latitude, avg_coords[key[2]].longitude >> ]_vars

(* --------------------------------- C19 -------------------------------- *)

\* No count and no duration sum of a block is smaller after than before.
NotDecreased(before, after) ==
    /\ after.trip_count >= before.trip_count
    /\ after.electric_count >= before.electric_count
    /\ after.total_duration >= before.total_duration
    /\ after.electric_duration >= before.electric_duration
    /\ after.classic_duration >= before.classic_duration

\* C19: an accumulator appears only in the step that counts a valid trip
\* of its key (a station of the trip; the trip's pair or its mirror), it
\* is never removed, and from one processed record to the next no trip
\* count, electric count or duration sum of a station accumulator or of a
\* pair block decreases.
C19_MonotoneAccumulators ==
    [][ /\ (pc = "stations" /\ i <= Len(rows)) =>
               /\ \A id \in DOMAIN stations :
                      /\ id \in DOMAIN stations'
                      /\ NotDecreased(StationFwd(stations[id]), StationFwd(stations'[id]))
                      /\ NotDecreased(StationRev(stations[id]), StationRev(stations'[id]))
               /\ \A id \in DOMAIN stations' \ DOMAIN stations :
                      /\ ValidTrip(rows[i], avg_coords)
                      /\ id \in { rows[i].start_station_id, rows[i].end_station_id }
        /\ (pc = "pairs" /\ i <= Len(rows)) =>
               /\ \A key \in DOMAIN pairs :
                      /\ key \in DOMAIN pairs'
                      /\ NotDecreased(pairs[key].stats_fwd, pairs'[key].stats_fwd)
                      /\ NotDecreased(pairs[key].stats_rev, pairs'[key].stats_rev)
               /\ \A key \in DOMAIN pairs' \ DOMAIN pairs :
                      /\ ValidTrip(rows[i], avg_coords)
                      /\ key \in { << rows[i].start_station_id, rows[i].end_station_id >>,
                                   << rows[i].end_station_id, rows[i].start_station_id >> }
        /\ (pc \in { "stations", "pairs" } /\ i > Len(rows)) =>
               stations' = stations /\ pairs' = pairs ]_vars

(* --------------------------------- C20 -------------------------------- *)

\* A block whose electric count lies between 0 and its trip count, whose
\* total duration is the sum of its electric and classic durations, and
\* whose classic count (trips less electric trips) is the number of the
\* given trips that are not electric.
BlockConsistent(block, trips) ==
    /\ 0 <= block.electric_count
    /\ block.electric_count <= block.trip_count
    /\ block.total_duration = block.electric_duration + block.classic_duration
    /\ block.trip_count - block.electric_count >= 0
    /\ block.trip_count - block.electric_count
           = Cardinality({ k \in trips : rows[k].rideable_type # electric_bike })

\* Over the batches, where every sum is exact: each direction of every
\* station accumulator and each block of every pair accumulator is
\* consistent after any prefix.
BlocksConsistent ==
    /\ (mode = "stations" /\ pc \in { "stations", "done" }) =>
           \A id \in DOMAIN stations :
               /\ BlockConsistent(StationFwd(stations[id]), DeparturesOf(id))
               /\ BlockConsistent(StationRev(stations[id]), ArrivalsOf(id))
    /\ (mode = "pairs" /\ pc \in { "pairs", "done" }) =>
           \A key \in DOMAIN pairs :
               /\ BlockConsistent(pairs[key].stats_fwd, TripsAlong(key))
               /\ BlockConsistent(pairs[key].stats_rev, TripsAlong(Mirror(key)))

\* The counts of a block of doubles: 0 <= electric_count <= trip_count, and
\* the classic count is the number of counted trips that are not electric.
CountsConsistent(block, counted) ==
    /\ 0 <= block.electric_count
    /\ block.electric_count <= block.trip_count
    /\ block.trip_count = Len(counted)
    /\ block.trip_count - block.electric_count
           = Cardinality({ k \in 1..Len(counted) :
                               counted[k].rideable_type # electric_bike })

\* C20: after any prefix every block has
\* 0 <= electric_count <= trip_count, a classic count trip_count -
\* electric_count that is not negative and is the number of counted trips
\* that are not electric, and total_duration = electric_duration +
\* classic_duration (the + of Python floats), whatever the durations.
C20_TotalIsElectricPlusClassic ==
    /\ BlocksConsistent
    /\ call.fn = "AddTrip" =>
           /\ CountsConsistent(call.stats, call.counted)
           /\ call.stats.total_duration
                  = FloatAdd(call.stats.electric_duration, call.stats.classic_duration)

(* --------------------------------- C21 -------------------------------- *)

\* The rows of a pair report whose origin is a station id.
OriginRows(pair_report, id) ==
    { m \in 1..Len(pair_report) : pair_report[m].start_station = id }

\* A station report and a pair report that agree: every station row has
\* pair rows of its origin, its trip_count_fwd and trip_count_rev are the
\* sums of theirs, and every origin of a pair row has a station row.
ReportsAgree(station_report, pair_report) ==
    /\ \A n \in 1..Len(station_report) :
           LET from == OriginRows(pair_report, station_report[n].station_id)
           IN  /\ from # {}
               /\ station_report[n].trip_count_fwd
                      = SumFn([m \in from |-> pair_report[m].trip_count_fwd])
               /\ station_report[n].trip_count_rev
                      = SumFn([m \in from |-> pair_report[m].trip_count_rev])
    /\ \A m \in 1..Len(pair_report) :
           \E n \in 1..Len(station_report) :
               station_report[n].station_id = pair_report[m].start_station

\* C21: the two reports of one batch agree: when a run has written its
\* report, the other analysis of the same rows and coordinates writes one
\* too; for every station id S the station report's trip_count_fwd is the
\* sum of trip_count_fwd over the pair rows whose origin is S and its
\* trip_count_rev the sum of their trip_count_rev; and S has a station row
\* iff it is the origin of at least one pair row.
C21_ReportsAgree ==
    /\ StationsDone =>
           LET other == analyze_station_pairs(avg_coords, rows)
           IN  /\ other.exc = ""
               /\ ReportsAgree(output_rows, other.output_rows)
    /\ PairsDone =>
           LET other == analyze_stations(avg_coords, rows)
           IN  /\ other.exc = ""
               /\ ReportsAgree(other.output_rows, output_rows)

\* A station report whose row of N1 has two arrivals and no departure,
\* from two pair rows of origin N1 with one reverse trip each.
C21_Witness ==
    /\ StationsDone
    /\ StationRowAt(N1) # 0
    /\ output_rows[StationRowAt(N1)].trip_count_fwd = 0
    /\ output_rows[StationRowAt(N1)].trip_count_rev = 2
    /\ LET pair_report == analyze_station_pairs(avg_coords, rows).output_rows
       IN  /\ Cardinality(OriginRows(pair_report, N1)) = 2
           /\ \A m \in OriginRows(pair_report, N1) : pair_report[m].trip_count_rev = 1

(* --------------------------------- C22 -------------------------------- *)

\* The ways to reorder n records, and a list reordered in one of them.
Reorderings(n) ==
    { f \in [1..n -> 1..n] : \A a, b \in 1..n : f[a] = f[b] => a = b }

Reordered(rs, f) == [k \in 1..Len(rs) |-> rs[f[k]]]

\* Accumulators and reports with their display names blanked.
UnnamedStations(st) ==
    [id \in DOMAIN st |-> [st[id] EXCEPT !.station_name = <<>>]]

UnnamedPairs(ps) ==
    [key \in DOMAIN ps |-> [ps[key] EXCEPT !.start_station_name = <<>>,
                                          !.end_station_name = <<>>]]

UnnamedStationReport(report) ==
    [n \in 1..Len(report) |-> [report[n] EXCEPT !.station_name = <<>>]]

UnnamedPairReport(report) ==
    [n \in 1..Len(report) |-> [report[n] EXCEPT !.start_station_name = <<>>,
                                                !.end_station_name = <<>>]]

\* Over the batches, where every sum is exact: a run that has ended, and
\* the run of the same analysis over any reordering of its records, end
\* alike (both with a report or both with the same exception), with the
\* same coordinates, and with accumulators and reports that have the same
\* keys and differ in nothing but the display names.
SameButNamesInAnyOrder ==
    /\ (mode = "stations" /\ pc \in { "done", "crashed" }) =>
           \A f \in Reorderings(Len(rows)) :
               LET batch == Reordered(rows, f)
                   coords == compute_station_coordinates(batch)
                   after == StationsAfter(EmptyDict, coords, batch)
                   report == analyze_stations(coords, batch)
               IN  /\ coords = avg_coords
                   /\ report.exc = exc
                   /\ pc = "done" =>
                          /\ UnnamedStations(after.stations) = UnnamedStations(stations)
                          /\ UnnamedStationReport(report.output_rows)
                                 = UnnamedStationReport(output_rows)
    /\ (mode = "pairs" /\ pc \in { "done", "crashed" }) =>
           \A f \in Reorderings(Len(rows)) :
               LET batch == Reordered(rows, f)
                   coords == compute_station_coordinates(batch)
                   after == PairsAfter(EmptyDict, coords, batch)
                   report == analyze_station_pairs(coords, batch)
               IN  /\ coords = avg_coords
                   /\ report.exc = exc
                   /\ pc = "done" =>
                          /\ UnnamedPairs(after.pairs) = UnnamedPairs(pairs)
                          /\ UnnamedPairReport(report.output_rows)
                                 = UnnamedPairReport(output_rows)

\* C22: for any batch and any reordering of its records, each report has
\* the same rows, and every trip count, electric count and, the durations
\* being integers, duration sum is the same; only the display names can
\* depend on the order of the records.
C22_OrderIndependent ==
    /\ SameButNamesInAnyOrder
    /\ call.fn = "AddTrip" =>
           \A f \in Reorderings(Len(call.counted)) :
               AddTripsOfDoubles(NewTripStatsOfDoubles, Reordered(call.counted, f))
                   = call.stats

====
